---------------------------- MODULE Spec2Model ----------------------------
(***************************************************************************)
(* A model of gnn_tools/LinkPredictionDataset.py: the train/test edge      *)
(* splitter, the negative edge sampler and the dataset orchestrator.       *)
(*                                                                         *)
(* A sparse matrix is the set of its nonzero coordinates <<r, c>> (the     *)
(* graphs are unweighted).  An edge key, numpy's complex number            *)
(* min(r,c) + 1j*max(r,c), is the record [re |-> min, im |-> max].  A      *)
(* pair of parallel arrays (src, trg) is a set or a sequence of tuples     *)
(* <<src, trg>>.  The fraction is the exact rational <<num, den>>.         *)
(* Inputs are simple graphs (no diagonal entry), given as symmetric or     *)
(* asymmetric matrices.                                                    *)
(***************************************************************************)
EXTENDS Integers, Sequences, FiniteSets, TLC

VARIABLES
    pc,                         \* position of the program
    err,                        \* the exception raised, or "none"
    net,                        \* the input adjacency (A of the splitter, net of the sampler)
    fraction,                   \* TrainTestEdgeSplitter.fraction, <<num, den>>
    all_negatives,              \* LinkPredictionDataset.all_negatives
    negatives_per_positive,     \* LinkPredictionDataset.negatives_per_positive
    duplicated_negative_edges,  \* NegativeEdgeSampler.duplicated_negative_edges
    mst_edges,                  \* history: mst_edges of TrainTestEdgeSplitter.fit run alone
    test_edges_,                \* TrainTestEdgeSplitter.test_edges_
    train_edges_,               \* TrainTestEdgeSplitter.train_edges_
    train_net,                  \* LinkPredictionDataset.train_net
    edge_indices,               \* NegativeEdgeSampler.edge_indices
    size,                       \* sampling: size
    test_edges,                 \* sampling: test_edges (keys), or None
    source_nodes,               \* sampling: source_nodes
    sampled_neg_edge_indices,   \* sampling: the accepted keys
    n_sampled,                  \* sampling: n_sampled
    n_iters,                    \* sampling: n_iters
    ret,                        \* sampling: the returned (neg_src, neg_trg)
    padded,                     \* history: a sampling call since the last start padded its result
    neg,                        \* get_negative_edges: the returned (neg_src, neg_trg)
    calls                       \* get_negative_edges: sampling calls made so far

vars == <<pc, err, net, fraction, all_negatives, negatives_per_positive,
          duplicated_negative_edges, mst_edges, test_edges_, train_edges_, train_net,
          edge_indices, size, test_edges, source_nodes,
          sampled_neg_edge_indices, n_sampled, n_iters, ret, padded, neg, calls>>

splitVars == <<mst_edges, test_edges_, train_edges_>>
configVars == <<net, fraction, all_negatives, negatives_per_positive,
                duplicated_negative_edges>>
samplingVars == <<size, test_edges, source_nodes, sampled_neg_edge_indices,
                  n_sampled, n_iters, ret, padded>>

----------------------------------------------------------------------------
(* Bounds *)

\* nodes of the splitter's input graphs
NumNodes == 4

\* nodes of the graphs the sampler is fitted on directly
NumSamplerNodes == 3

\* largest size asked of NegativeEdgeSampler.sampling directly
MaxSize == 2

\* largest denominator of a fraction
MaxDen == 5

\* largest negatives_per_positive
MaxNegPerPos == 2

Nodes == 0 .. (NumNodes - 1)
SamplerNodes == 0 .. (NumSamplerNodes - 1)

\* an optional array argument: None, or Some(the value)
None == [some |-> FALSE, val |-> {}]
Some(x) == [some |-> TRUE, val |-> x]

\* the sampler's retry budget
max_iters == 30

----------------------------------------------------------------------------
(* Edge codec *)

Min(a, b) == IF a <= b THEN a ELSE b
Max(a, b) == IF a >= b THEN a ELSE b

pairing(r, c) == [re |-> Min(r, c), im |-> Max(r, c)]

depairing(v) == <<v.re, v.im>>

\* pairing applied to a pair of parallel arrays held as a set of tuples
pairingAll(P) == {pairing(p[1], p[2]) : p \in P}

depairingAll(K) == {depairing(k) : k \in K}

----------------------------------------------------------------------------
(* Graph helpers *)

Transpose(M) == {<<p[2], p[1]>> : p \in M}

NodesOf(E) == {k.re : k \in E} \cup {k.im : k \in E}

RECURSIVE Grow(_, _)
Grow(S, E) ==
    LET S2 == S \cup {k.re : k \in {e \in E : e.im \in S}}
                \cup {k.im : k \in {e \in E : e.re \in S}}
    IN  IF S2 = S THEN S ELSE Grow(S2, E)

\* the connected components of the subgraph induced by the edges E
Components(E) == {Grow({v}, E) : v \in NodesOf(E)}

\* weight of the undirected edge k in A + A.T
Weight(A, k) ==
    (IF <<k.re, k.im>> \in A THEN 1 ELSE 0) + (IF <<k.im, k.re>> \in A THEN 1 ELSE 0)

\* total weight of the edges T in A + A.T (each weight is 1 or 2)
SumWeights(A, T) ==
    Cardinality({k \in T : Weight(A, k) = 1}) + 2 * Cardinality({k \in T : Weight(A, k) = 2})

\* the spanning forests of the graph of A + A.T
SpanningForests(A) ==
    LET E == {k \in pairingAll(A \cup Transpose(A)) : k.re # k.im}
        CE == Components(E)
        n == Cardinality(NodesOf(E)) - Cardinality(CE)
    IN  {T \in {U \in SUBSET E : Cardinality(U) = n} :
            \A C \in CE : Grow({CHOOSE v \in C : TRUE}, T) = C}

\* csgraph.minimum_spanning_tree(A + A.T), then pairing of its coordinates:
\* Kruskal's choice among edges of equal weight depends on the sort, so the
\* result is any spanning forest of least weight
minimum_spanning_tree(A) ==
    LET F == SpanningForests(A)
        W == {SumWeights(A, T) : T \in F}
        least == CHOOSE w \in W : \A x \in W : w <= x
    IN  {T \in F : SumWeights(A, T) = least}

----------------------------------------------------------------------------
(* TrainTestEdgeSplitter *)

\* edges = np.unique(pairing(*find(A)))
AllEdges(A) == pairingAll(A)

\* variant: the spanning forest is not taken out of the removable edges
RemainedMutant(edges, mst) == edges

\* remained_edge_set = set(edges) - set(mst_edges)
remained_edge_set(edges, mst) == edges \ mst

\* variant: the count is rounded up
n_edge_removalMutant(n, fr) == ((n * fr[1]) + fr[2] - 1) \div fr[2]

\* int(len(edges) * self.fraction)
n_edge_removal(n, fr) == (n * fr[1]) \div fr[2]

\* variant: the test edges at node 0 stay in the train set
TrainMutant(edges, test_edge_set) == edges \ {k \in test_edge_set : k.re # 0}

\* train_edge_set = set(edges) - set(test_edge_set)
train_edge_set(edges, test_edge_set) == edges \ test_edge_set

\* variant: the guard is <= instead of <
InfeasibleMutant(n_remained, n_removal) == n_remained <= n_removal

\* the guard of the raise
Infeasible(n_remained, n_removal) == n_remained < n_removal

\* TrainTestEdgeSplitter.fit(A), mst the spanning forest the library returned:
\* sets test_edges_, train_edges_ and err
Splitter_fit(A, fr, mst) ==
    LET edges == AllEdges(A)
        remained == remained_edge_set(edges, mst)
        n_removal == n_edge_removal(Cardinality(edges), fr)
    IN  IF Infeasible(Cardinality(remained), n_removal)
        THEN /\ err' = "Cannot remove edges by keeping the connectedness"
             /\ UNCHANGED <<test_edges_, train_edges_>>
        ELSE \E test_edge_set \in {S \in SUBSET remained : Cardinality(S) = n_removal} :
                /\ test_edges_' = depairingAll(test_edge_set)
                /\ train_edges_' = depairingAll(train_edge_set(edges, test_edge_set))
                /\ err' = "none"

----------------------------------------------------------------------------
(* Inputs *)

\* simple graphs on the nodes V as matrices: each graph stored in its upper
\* triangle, in its lower triangle, symmetrically, and in the upper
\* triangle with the edges at node 0 stored in both directions
Matrices(V) ==
    UNION {{U, Transpose(U), U \cup Transpose(U),
            U \cup Transpose({p \in U : p[1] = 0})} :
              U \in SUBSET {p \in V \X V : p[1] < p[2]}}

\* the fractions p/q in lowest terms, 0 < p/q < 1
Fractions ==
    {f \in (1 .. MaxDen) \X (1 .. MaxDen) :
        /\ f[1] < f[2]
        /\ \A d \in 2 .. f[1] : f[1] % d # 0 \/ f[2] % d # 0}

\* the 5-node path of the spec's scenario, each edge stored in either or both directions
PathEdges == {<<0, 1>>, <<1, 2>>, <<2, 3>>, <<3, 4>>}
PathMatrices ==
    {M \in SUBSET (PathEdges \cup Transpose(PathEdges)) :
        pairingAll(M) = pairingAll(PathEdges)}

Idle ==
    /\ err = "none"
    /\ mst_edges = {}
    /\ test_edges_ = {}
    /\ train_edges_ = {}
    /\ train_net = {}
    /\ edge_indices = {}
    /\ size = 0
    /\ test_edges = None
    /\ source_nodes = <<>>
    /\ sampled_neg_edge_indices = <<>>
    /\ n_sampled = 0
    /\ n_iters = 0
    /\ ret = <<>>
    /\ padded = FALSE
    /\ neg = <<>>
    /\ calls = 0

----------------------------------------------------------------------------
(* The splitter alone *)

SplitInit ==
    /\ pc = "init"
    /\ net \in Matrices(Nodes)
    /\ fraction \in Fractions
    /\ all_negatives = FALSE
    /\ negatives_per_positive = 1
    /\ duplicated_negative_edges = FALSE
    /\ Idle

PathInit ==
    /\ pc = "init"
    /\ net \in PathMatrices
    /\ fraction \in Fractions
    /\ all_negatives = FALSE
    /\ negatives_per_positive = 1
    /\ duplicated_negative_edges = FALSE
    /\ Idle

SplitterFit ==
    /\ pc = "init"
    /\ \E mst \in minimum_spanning_tree(net) :
          /\ Splitter_fit(net, fraction, mst)
          /\ mst_edges' = mst
    /\ pc' = IF err' = "none" THEN "split" ELSE "raised"
    /\ UNCHANGED <<configVars, train_net, edge_indices, samplingVars, neg, calls>>

SplitNext == SplitterFit

SplitSpec == SplitInit /\ [][SplitNext]_vars

PathSpec == PathInit /\ [][SplitNext]_vars

----------------------------------------------------------------------------
(* Node-Pair Source: gnn_tools.node_samplers, the external collaborator *)

\* sampler.sampling_source_nodes(size): size node ids
sampling_source_nodes(V, k) == [1 .. k -> V]

\* sampler.sampling(center_nodes): one candidate pair per center node
NodePairSource_sampling(V, centers) == [1 .. Len(centers) -> V \X V]

----------------------------------------------------------------------------
(* NegativeEdgeSampler *)

\* sparse.triu(net)
triu(M) == {p \in M : p[1] <= p[2]}

\* NegativeEdgeSampler.fit: pairing(*find(triu(net)))
Sampler_fit(M) == pairingAll(triu(M))

\* np.isin(_neg_edge_indices, self.edge_indices)
IsPositivePair(k, indices) == k \in indices

\* variant: the test edges are not excluded
IsTestPairMutant(k, excluded) == FALSE

\* test_edges is not None and np.isin(_neg_edge_indices, test_edges)
IsTestPair(k, excluded) == excluded.some /\ k \in excluded.val

\* variant: repeats within a batch are kept
isUniqueMutant(keys, i) == TRUE

\* isUnique: the first occurrence of the key in the batch
isUnique(keys, i) == \A j \in 1 .. (i - 1) : keys[j] # keys[i]

\* variant: keys accepted in earlier rounds are not excluded
existingPairsMutant(k, sampled) == FALSE

\* np.isin(_neg_edge_indices, sampled_neg_edge_indices)
existingPairs(k, sampled) == \E j \in 1 .. Len(sampled) : sampled[j] = k

\* the reject mask of one round
reject(cand, indices, excluded, dup, sampled) ==
    LET keys == [i \in 1 .. Len(cand) |-> pairing(cand[i][1], cand[i][2])]
    IN  [i \in 1 .. Len(cand) |->
            \/ IsPositivePair(keys[i], indices)
            \/ IsTestPair(keys[i], excluded)
            \/ cand[i][1] = cand[i][2]
            \/ /\ dup = FALSE
               /\ \/ ~isUnique(keys, i)
                  \/ existingPairs(keys[i], sampled)]

\* a[mask] and a[~mask]: the entries of a whose mask equals b
RECURSIVE Masked(_, _, _)
Masked(a, mask, b) ==
    IF a = <<>> THEN <<>>
    ELSE LET rest == Masked(Tail(a), Tail(mask), b)
         IN  IF Head(mask) = b THEN <<Head(a)>> \o rest ELSE rest

\* variant: every source node is retried
CarryAllMutant(src, mask) == src

\* source_nodes = source_nodes[reject]
CarryForward(src, mask) == Masked(src, mask, TRUE)

\* (n_sampled < size) and (n_iters < max_iters)
LoopCondition(n, k, it) == (n < k) /\ (it < max_iters)

\* lines 226-247: the source nodes are drawn and the loop state is set up
Sampling_begin(src, k, excluded) ==
    /\ size' = k
    /\ source_nodes' = src
    /\ sampled_neg_edge_indices' = <<>>
    /\ n_sampled' = 0
    /\ n_iters' = 0
    /\ test_edges' = IF excluded.some THEN Some(pairingAll(excluded.val)) ELSE None
    /\ ret' = <<>>

\* lines 249-294: one round of the loop
Sampling_round(V) ==
    /\ LoopCondition(n_sampled, size, n_iters)
    /\ \E cand \in NodePairSource_sampling(V, source_nodes) :
        LET mask == reject(cand, edge_indices, test_edges,
                           duplicated_negative_edges, sampled_neg_edge_indices)
            keys == [i \in 1 .. Len(cand) |-> pairing(cand[i][1], cand[i][2])]
            sampled == sampled_neg_edge_indices \o Masked(keys, mask, FALSE)
        IN  /\ sampled_neg_edge_indices' = sampled
            /\ source_nodes' = CarryForward(source_nodes, mask)
            /\ n_sampled' = n_sampled + (Len(sampled) - n_sampled)
            /\ n_iters' = n_iters + 1
    /\ UNCHANGED <<size, test_edges, ret, padded>>

\* lines 296-301: depairing, and the padding of a shortfall: the possible
\* outcomes, an exception or the returned pairs;
\* np.random.choice(0, size=m) raises for m > 0
Sampling_end ==
    LET got == [i \in 1 .. Len(sampled_neg_edge_indices) |->
                   depairing(sampled_neg_edge_indices[i])]
        short == size - Len(got)
    IN  IF Len(got) < size
        THEN IF Len(got) = 0
             THEN {[err |-> "a must be greater than 0 unless no samples are taken",
                    ret |-> <<>>, padded |-> FALSE]}
             ELSE {[err |-> "none",
                    ret |-> got \o [i \in 1 .. short |-> got[ids[i]]],
                    padded |-> TRUE] : ids \in [1 .. short -> 1 .. Len(got)]}
        ELSE {[err |-> "none", ret |-> got, padded |-> FALSE]}

----------------------------------------------------------------------------
(* The sampler alone *)

SymmetricMatrices(V) == {M \in Matrices(V) : M = Transpose(M)}

\* the test_edges argument: None, or edges as (src, trg) arrays
TestEdgeArgs(V) == {None} \cup {Some(P) : P \in SUBSET {p \in V \X V : p[1] > p[2]}}

SamplerInit ==
    /\ pc = "new"
    /\ net \in SymmetricMatrices(SamplerNodes)
    /\ fraction = <<1, 2>>
    /\ all_negatives = FALSE
    /\ negatives_per_positive = 1
    /\ duplicated_negative_edges \in BOOLEAN
    /\ Idle

SamplerFit ==
    /\ pc = "new"
    /\ edge_indices' = Sampler_fit(net)
    /\ pc' = "fitted"
    /\ UNCHANGED <<err, configVars, splitVars, train_net, samplingVars, neg, calls>>

SamplingStart ==
    /\ pc = "fitted"
    /\ \E k \in 0 .. MaxSize : \E excluded \in TestEdgeArgs(SamplerNodes) :
          \E src \in sampling_source_nodes(SamplerNodes, k) :
              /\ Sampling_begin(src, k, excluded)
              /\ padded' = FALSE
    /\ pc' = "loop"
    /\ UNCHANGED <<err, configVars, splitVars, train_net, edge_indices, neg, calls>>

SamplerRound ==
    /\ pc = "loop"
    /\ Sampling_round(SamplerNodes)
    /\ pc' = "loop"
    /\ UNCHANGED <<err, configVars, splitVars, train_net, edge_indices, neg, calls>>

SamplingEnd ==
    /\ pc = "loop"
    /\ ~LoopCondition(n_sampled, size, n_iters)
    /\ \E out \in Sampling_end :
          /\ err' = out.err
          /\ ret' = out.ret
          /\ padded' = out.padded
    /\ pc' = IF err' = "none" THEN "returned" ELSE "raised"
    /\ UNCHANGED <<size, test_edges, source_nodes, sampled_neg_edge_indices,
                   n_sampled, n_iters>>
    /\ UNCHANGED <<configVars, splitVars, train_net, edge_indices, neg, calls>>

SamplerNext == SamplerFit \/ SamplingStart \/ SamplerRound \/ SamplingEnd

SamplerSpec == SamplerInit /\ [][SamplerNext]_vars

----------------------------------------------------------------------------
(* LinkPredictionDataset *)

\* csr_matrix((ones, (train_src, train_trg))) + its transpose, data set to 1
Symmetrized(P) == P \cup Transpose(P)

\* the pairs of S as parallel arrays in row-major order
RECURSIVE RowMajor(_)
RowMajor(S) ==
    IF S = {} THEN <<>>
    ELSE LET m == CHOOSE p \in S : \A q \in S :
                      p[1] < q[1] \/ (p[1] = q[1] /\ p[2] <= q[2])
         IN  <<m>> \o RowMajor(S \ {m})

\* np.triu_indices(n, k=1)
triu_indices(V) == RowMajor({p \in V \X V : p[1] < p[2]})

\* self.net[(neg_src, neg_trg)] == 0
IsZero(M, p) == p \notin M

\* lines 115-121: every pair i < j whose entry of the input matrix is 0
AllNegatives(V, M) == SelectSeq(triu_indices(V), LAMBDA p : IsZero(M, p))

\* the centers the Node-Pair Source draws in the dataset runs
MaxCenter == 0

Centers == {v \in Nodes : v <= MaxCenter}

\* the fractions of the dataset runs
DatasetFractions == {f \in Fractions : f[2] = MaxDen}

Init ==
    /\ pc = "init"
    /\ net \in Matrices(Nodes)
    /\ fraction \in DatasetFractions
    /\ all_negatives \in BOOLEAN
    /\ negatives_per_positive \in 1 .. MaxNegPerPos
    /\ duplicated_negative_edges = FALSE
    /\ Idle

\* LinkPredictionDataset.fit
DatasetFit ==
    /\ pc = "init"
    /\ \E mst \in minimum_spanning_tree(net) : Splitter_fit(net, fraction, mst)
    /\ UNCHANGED mst_edges
    /\ IF err' = "none"
       THEN /\ train_net' = Symmetrized(train_edges_')
            /\ edge_indices' = Sampler_fit(train_net')
            /\ pc' = "fitted"
       ELSE /\ UNCHANGED <<train_net, edge_indices>>
            /\ pc' = "raised"
    /\ UNCHANGED <<configVars, samplingVars, neg, calls>>

\* get_negative_edges with all_negatives
GetAllNegatives ==
    /\ pc = "fitted"
    /\ all_negatives
    /\ neg' = AllNegatives(Nodes, net)
    /\ pc' = "done"
    /\ UNCHANGED <<err, configVars, splitVars, train_net, edge_indices,
                   samplingVars, calls>>

\* get_negative_edges, lines 136-139: the next sampling call
CallSampling ==
    /\ pc = "fitted"
    /\ ~all_negatives
    /\ calls < negatives_per_positive
    /\ Cardinality(test_edges_) <= MaxSize
    /\ \E src \in sampling_source_nodes(Centers, Cardinality(test_edges_)) :
          Sampling_begin(src, Cardinality(test_edges_), Some(test_edges_))
    /\ UNCHANGED padded
    /\ pc' = "loop"
    /\ UNCHANGED <<err, configVars, splitVars, train_net, edge_indices, neg, calls>>

DatasetRound ==
    /\ pc = "loop"
    /\ Sampling_round(Nodes)
    /\ pc' = "loop"
    /\ UNCHANGED <<err, configVars, splitVars, train_net, edge_indices, neg, calls>>

\* get_negative_edges, lines 140-143: the call returns, its locals are gone
\* and its result is appended
ReturnSampling ==
    /\ pc = "loop"
    /\ ~LoopCondition(n_sampled, size, n_iters)
    /\ \E out \in Sampling_end :
          /\ err' = out.err
          /\ padded' = (padded \/ out.padded)
          /\ IF out.err = "none"
             THEN /\ neg' = neg \o out.ret
                  /\ calls' = calls + 1
                  /\ pc' = IF calls' = negatives_per_positive THEN "done" ELSE "fitted"
             ELSE /\ UNCHANGED <<neg, calls>>
                  /\ pc' = "raised"
    /\ size' = 0
    /\ test_edges' = None
    /\ source_nodes' = <<>>
    /\ sampled_neg_edge_indices' = <<>>
    /\ n_sampled' = 0
    /\ n_iters' = 0
    /\ ret' = <<>>
    /\ UNCHANGED <<configVars, splitVars, train_net, edge_indices>>

Next == DatasetFit \/ GetAllNegatives \/ CallSampling \/ DatasetRound \/ ReturnSampling

Spec == Init /\ [][Next]_vars

----------------------------------------------------------------------------
(* Properties of the splitter *)

\* an array pair (src, trg) as a set of unordered pairs
Unordered(P) == {{p[1], p[2]} : p \in P}

\* the undirected edge set of the input graph
GraphEdges(M) == {{i, j} : <<i, j>> \in {p \in M : p[1] # p[2]}}

\* the nodes reachable from the nodes S along the unordered pairs E
RECURSIVE Reach(_, _)
Reach(S, E) ==
    LET S2 == S \cup UNION {e \in E : e \cap S # {}}
    IN  IF S2 = S THEN S ELSE Reach(S2, E)

\* connected components over the nodes incident to a pair of E
ComponentsOf(E) == {Reach({v}, E) : v \in UNION E}

\* C1: when fit completes, the subgraph induced by the train edges has as
\* many connected components (over non-isolated nodes) as the input graph,
\* and for a connected input it is one component that covers every node
\* incident to an edge
C1_TrainKeepsComponents ==
    pc = "split" =>
        LET E == GraphEdges(net)
            T == Unordered(train_edges_)
        IN  /\ Cardinality(ComponentsOf(T)) = Cardinality(ComponentsOf(E))
            /\ Cardinality(ComponentsOf(E)) = 1 => ComponentsOf(T) = {UNION E}

C1_Witness ==
    /\ pc = "split"
    /\ ComponentsOf(GraphEdges(net)) = {Nodes}
    /\ Cardinality(test_edges_) >= 2

\* C2: when fit completes, the train edges and the test edges are disjoint
\* and together they are the undirected edge set of the input graph
C2_Partition ==
    pc = "split" =>
        /\ Unordered(train_edges_) \cap Unordered(test_edges_) = {}
        /\ Unordered(train_edges_) \cup Unordered(test_edges_) = GraphEdges(net)
        /\ Cardinality(train_edges_) + Cardinality(test_edges_)
              = Cardinality(GraphEdges(net))

C2_Witness ==
    /\ pc = "split"
    /\ test_edges_ # {}
    /\ train_edges_ # {}
    /\ net # Transpose(net)

\* C7: when fit completes, the number of test edges is floor(fraction * |E|)
\* and no test edge is an edge of the spanning forest
C7_TestSize ==
    pc = "split" =>
        LET m == Cardinality(test_edges_)
            n == Cardinality(GraphEdges(net))
        IN  /\ m * fraction[2] <= n * fraction[1]
            /\ n * fraction[1] < (m + 1) * fraction[2]
            /\ Unordered(test_edges_) \cap Unordered(depairingAll(mst_edges)) = {}
            /\ ComponentsOf(Unordered(depairingAll(mst_edges)))
                  = ComponentsOf(GraphEdges(net))

C7_Witness ==
    /\ pc = "split"
    /\ Cardinality(test_edges_) = 2
    /\ Cardinality(GraphEdges(net)) = 5
    /\ fraction = <<1, 2>>

\* C8 as stated: on the 5-node path, fit fails for every fraction > 0
C8_PathAlwaysFails == pc # "split"

\* C8 amended: on the 5-node path, fit fails with the split-infeasible error,
\* leaving no partition, exactly when floor(4 * fraction) >= 1; for a
\* smaller fraction it completes with no test edge and the four edges as
\* train edges
C8_PathFailsFromQuarter ==
    pc # "init" =>
        IF 4 * fraction[1] >= fraction[2]
        THEN /\ pc = "raised"
             /\ err = "Cannot remove edges by keeping the connectedness"
             /\ test_edges_ = {} /\ train_edges_ = {}
        ELSE /\ pc = "split"
             /\ err = "none"
             /\ test_edges_ = {}
             /\ Unordered(train_edges_) = GraphEdges(PathEdges)

C8_Witness ==
    /\ pc = "raised"
    /\ GraphEdges(net) = GraphEdges(PathEdges)
    /\ fraction = <<1, 2>>

----------------------------------------------------------------------------
(* Properties of the sampler *)

\* the pairs of a (src, trg) sequence as unordered pairs
UnorderedAt(r, i) == {r[i][1], r[i][2]}

Distinct(r) ==
    \A i \in 1 .. Len(r) : \A j \in 1 .. Len(r) :
        i # j => UnorderedAt(r, i) # UnorderedAt(r, j)

\* C3 as stated: sampling never fails and returns exactly size pairs
C3_NeverFailsReturnsSize ==
    /\ pc # "raised"
    /\ pc = "returned" => Len(ret) = size

\* C4: every returned pair, padded ones included, is no self-loop, no edge
\* of the fitted graph and no pair of the test_edges passed to the call
C4_NegativesValid ==
    pc = "returned" =>
        \A i \in 1 .. Len(ret) :
            /\ ret[i][1] # ret[i][2]
            /\ UnorderedAt(ret, i) \notin GraphEdges(net)
            /\ test_edges.some =>
                  UnorderedAt(ret, i) \notin Unordered(depairingAll(test_edges.val))

C4_Witness ==
    /\ pc = "returned"
    /\ padded
    /\ Len(ret) = 2
    /\ net # {}
    /\ test_edges.some /\ test_edges.val # {}

\* C5: with duplicated_negative_edges = False the accepted keys are never
\* repeated, in one batch or across rounds, so a call that returns without
\* padding returns pairwise distinct unordered pairs
C5_DistinctWithoutPadding ==
    duplicated_negative_edges = FALSE =>
        /\ \A i \in 1 .. Len(sampled_neg_edge_indices) :
             \A j \in 1 .. Len(sampled_neg_edge_indices) :
                i # j => sampled_neg_edge_indices[i] # sampled_neg_edge_indices[j]
        /\ (pc = "returned" /\ ~padded) => Distinct(ret)

C5_Witness ==
    /\ pc = "returned"
    /\ duplicated_negative_edges = FALSE
    /\ ~padded
    /\ Len(ret) = 2
    /\ n_iters >= 2

\* C10: after every round the accepted pairs and the carried-forward source
\* nodes add up to size, the accepted count never exceeds size, a round
\* runs only while the count is below size and fewer than 30 rounds ran,
\* and the loop is left with the count at size or after 30 rounds
C10_RetryLoop ==
    pc \in {"loop", "returned", "raised"} =>
        /\ Len(sampled_neg_edge_indices) + Len(source_nodes) = size
        /\ n_sampled = Len(sampled_neg_edge_indices)
        /\ n_sampled <= size
        /\ n_iters <= 30
        /\ pc # "loop" => (n_sampled = size \/ n_iters = 30)
        /\ ENABLED SamplerRound => (n_sampled < size /\ n_iters < 30)

C10_Witness ==
    /\ pc = "loop"
    /\ size = 2
    /\ n_iters = 2
    /\ Len(sampled_neg_edge_indices) = 1
    /\ Len(source_nodes) = 1

----------------------------------------------------------------------------
(* Properties of the dataset *)

\* C6 as stated: with all_negatives the returned pairs are exactly the
\* unordered pairs that are not edges of the undirected input graph
C6_AllNegativesAreComplement ==
    (pc = "done" /\ all_negatives) =>
        {UnorderedAt(neg, i) : i \in 1 .. Len(neg)}
            = {{p[1], p[2]} : p \in {q \in Nodes \X Nodes : q[1] < q[2]}}
                  \ GraphEdges(net)

\* C9 as stated: without padding, no negative edge is returned twice by
\* the sampling calls of one get_negative_edges
C9_NoRepeatAcrossCalls ==
    (pc = "done" /\ ~all_negatives /\ ~duplicated_negative_edges /\ ~padded) =>
        Distinct(neg)

\* C9 amended: without padding, no negative edge is returned twice by one
\* sampling call; each call starts from an empty accepted list, so a later
\* call may return a negative edge of an earlier call again
C9_NoRepeatWithinCall ==
    (~all_negatives /\ ~duplicated_negative_edges) =>
        LET n == Cardinality(test_edges_)
        IN  /\ \A i \in 1 .. Len(sampled_neg_edge_indices) :
                 \A j \in 1 .. Len(sampled_neg_edge_indices) :
                    i # j => sampled_neg_edge_indices[i] # sampled_neg_edge_indices[j]
            /\ (pc \in {"fitted", "done"} /\ ~padded) =>
                 /\ Len(neg) = calls * n
                 /\ \A c \in 0 .. (calls - 1) :
                        Distinct(SubSeq(neg, c * n + 1, c * n + n))

C9_Witness ==
    /\ pc = "done"
    /\ ~all_negatives
    /\ ~duplicated_negative_edges
    /\ ~padded
    /\ negatives_per_positive = 2
    /\ Len(neg) = 2
    /\ neg[1] = neg[2]

=============================================================================
